---- MODULE Spec2Model ----
(***************************************************************************)
(* A model of fiz3d/math: the generic four-component vector Vec4<T>        *)
(* (src/src/vec4.rs) and the conversions out of meters M<T>                *)
(* (src/src/dist/m.rs).                                                    *)
(*                                                                         *)
(* Every operation of the library is a pure function of its operands, so   *)
(* each is an operator here, written as the source computes it, and each   *)
(* specification draws the operands in Init and applies the operations as  *)
(* actions that record which operation ran (op) and what it returned (out).*)
(***************************************************************************)
EXTENDS Integers, Sequences, FiniteSets

VARIABLES
    a, b,        \* the vector operands: self and the other vector
    lo, hi,      \* the scalar bounds handed to clamp
    op, out,     \* the vector operation applied last, and its result
    ty,          \* the scalar type T the distance units are instantiated at
    checks,      \* whether the build checks integer overflow (debug) or wraps (release)
    x,           \* the scalar the first unit value was constructed from
    unit, val,   \* the unit value at hand: its unit type and the scalar it wraps
    st,          \* "ok", or how the last conversion panicked
    hist         \* the unit types the value has passed through, oldest first

vars == <<a, b, lo, hi, op, out, ty, checks, x, unit, val, st, hist>>
vecVars == <<a, b, lo, hi, op, out>>
distVars == <<ty, checks, x, unit, val, st, hist>>

(***************************************************************************)
(* Bounds.                                                                 *)
(***************************************************************************)
\* vector components range over -1..MaxComp
MaxComp == 1
\* distance scalars range over -MaxX..MaxX, cut to the range of T
MaxX == 1100
\* the number of conversions applied in a row to one value
MaxHops == 2

Comps == (0 - 1)..MaxComp

(***************************************************************************)
(* Vec4<T>.  T is an integer type; with components in Comps no operation   *)
(* below leaves the range of any of Rust's signed integer types, so T's    *)
(* +, * and comparisons are the ones of the integers.                      *)
(***************************************************************************)
Vec4(vx, vy, vz, vw) == [x |-> vx, y |-> vy, z |-> vz, w |-> vw]

Vec4s == [x : Comps, y : Comps, z : Comps, w : Comps]

Axes == {"x", "y", "z", "w"}

dot(self, o) ==
    self.x * o.x + self.y + o.y + self.z + o.z + self.w + o.w

length_sq(self) ==
    self.x * self.x + self.y * self.y + self.z * self.z + self.w * self.w

\* add with the last component taken from the wrong field of self
add_wrong_field(self, rhs) ==
    Vec4(self.x + rhs.x, self.y + rhs.y, self.z + rhs.z, self.z + rhs.w)

add(self, rhs) ==
    Vec4(self.x + rhs.x, self.y + rhs.y, self.z + rhs.z, self.w + rhs.w)

\* any_less that forgets the last component
any_less_no_w(self, o) ==
    self.x < o.x \/ self.y < o.y \/ self.z < o.z

any_less(self, o) ==
    self.x < o.x \/ self.y < o.y \/ self.z < o.z \/ self.w < o.w

any_greater(self, o) ==
    self.x > o.x \/ self.y > o.y \/ self.z > o.z \/ self.w > o.w

eq(self, rhs) ==
    /\ self.x = rhs.x
    /\ self.y = rhs.y
    /\ self.z = rhs.z
    /\ self.w = rhs.w

\* a lexicographic comparison in place of the all-or-nothing one
partial_cmp_lexicographic(self, other) ==
    IF eq(self, other) THEN "Equal"
    ELSE LET d == CHOOSE i \in 1..4 :
                    /\ <<self.x, self.y, self.z, self.w>>[i] # <<other.x, other.y, other.z, other.w>>[i]
                    /\ \A j \in 1..(i - 1) :
                          <<self.x, self.y, self.z, self.w>>[j] = <<other.x, other.y, other.z, other.w>>[j]
         IN IF <<self.x, self.y, self.z, self.w>>[d] < <<other.x, other.y, other.z, other.w>>[d]
            THEN "Less" ELSE "Greater"

\* partial_cmp whose Greater branch forgets the last component
partial_cmp_greater_no_w(self, other) ==
    IF self.x < other.x /\ self.y < other.y /\ self.z < other.z /\ self.w < other.w
    THEN "Less"
    ELSE IF self.x > other.x /\ self.y > other.y /\ self.z > other.z
    THEN "Greater"
    ELSE IF eq(self, other)
    THEN "Equal"
    ELSE "None"

partial_cmp(self, other) ==
    IF self.x < other.x /\ self.y < other.y /\ self.z < other.z /\ self.w < other.w
    THEN "Less"
    ELSE IF self.x > other.x /\ self.y > other.y /\ self.z > other.z /\ self.w > other.w
    THEN "Greater"
    ELSE IF eq(self, other)
    THEN "Equal"
    ELSE "None"

\* T's additive identity, Zero::zero() of the integer types
scalar_zero == 0

scalar_is_zero(s) == s = scalar_zero

zero == Vec4(scalar_zero, scalar_zero, scalar_zero, scalar_zero)

\* is_zero that forgets the last component
is_zero_no_w(self) ==
    /\ scalar_is_zero(self.x)
    /\ scalar_is_zero(self.y)
    /\ scalar_is_zero(self.z)

is_zero(self) ==
    /\ scalar_is_zero(self.x)
    /\ scalar_is_zero(self.y)
    /\ scalar_is_zero(self.z)
    /\ scalar_is_zero(self.w)

\* the scalar's clamp, supplied by the crate's clamp module
scalar_clamp(s, min, max) ==
    IF s < min THEN min ELSE IF s > max THEN max ELSE s

\* clamp that leaves the last component as it was
clamp_no_w(self, min, max) ==
    Vec4(scalar_clamp(self.x, min, max),
         scalar_clamp(self.y, min, max),
         scalar_clamp(self.z, min, max),
         self.w)

clamp(self, min, max) ==
    Vec4(scalar_clamp(self.x, min, max),
         scalar_clamp(self.y, min, max),
         scalar_clamp(self.z, min, max),
         scalar_clamp(self.w, min, max))

(***************************************************************************)
(* The vector operations as actions.                                       *)
(***************************************************************************)
Apply(name, result) ==
    /\ op' = name
    /\ out' = result
    /\ UNCHANGED <<a, b, lo, hi>>
    /\ UNCHANGED distVars

Dot == Apply("dot", dot(a, b))
LengthSq == Apply("length_sq", length_sq(a))
Add == Apply("add", add(a, b))
AnyLess == Apply("any_less", any_less(a, b))
AnyGreater == Apply("any_greater", any_greater(a, b))
Eq == Apply("eq", eq(a, b))
PartialCmp == Apply("partial_cmp", partial_cmp(a, b))
IsZero == Apply("is_zero", is_zero(a))
Clamp == Apply("clamp", clamp(a, lo, hi))

DistIdle ==
    /\ ty = "i16"
    /\ checks = FALSE
    /\ x = 0
    /\ unit = "M"
    /\ val = 0
    /\ st = "ok"
    /\ hist = <<"M">>

InitVec ==
    /\ a \in Vec4s
    /\ b \in Vec4s
    /\ lo = 0
    /\ hi = 0
    /\ op = "new"
    /\ out = 0
    /\ DistIdle

NextVec ==
    \/ Dot
    \/ LengthSq
    \/ Add
    \/ AnyLess
    \/ AnyGreater
    \/ Eq
    \/ PartialCmp
    \/ IsZero

SpecVec == InitVec /\ [][NextVec]_vars

InitClamp ==
    /\ a \in Vec4s
    /\ b = zero
    /\ lo \in Comps
    /\ hi \in Comps
    /\ lo <= hi
    /\ op = "new"
    /\ out = 0
    /\ DistIdle

NextClamp == Clamp

SpecClamp == InitClamp /\ [][NextClamp]_vars


(***************************************************************************)
(* The distance units.  T is one of Rust's fixed-width integer types.  A   *)
(* conversion returns [st, v]: st is "ok" and v the scalar of the new unit *)
(* value, or st says how the conversion panicked and v is the operand.     *)
(***************************************************************************)
Types == {"i8", "u8", "i16", "u16"}

Units == {"M", "MM", "CM", "KM"}

Bits(t) == IF t \in {"i8", "u8"} THEN 8 ELSE 16

Signed(t) == t \in {"i8", "i16"}

TMin(t) == IF Signed(t) THEN 0 - 2 ^ (Bits(t) - 1) ELSE 0

TMax(t) == IF Signed(t) THEN 2 ^ (Bits(t) - 1) - 1 ELSE 2 ^ Bits(t) - 1

InRange(t, n) == TMin(t) <= n /\ n <= TMax(t)

\* the value of T that is congruent to n modulo 2^Bits(t)
Wrap(t, n) == ((n - TMin(t)) % (2 ^ Bits(t))) + TMin(t)

\* NumCast::from(n) for T: Some(n) when n is a value of T, None otherwise
cast(t, n) ==
    IF InRange(t, n) THEN [some |-> TRUE, v |-> n] ELSE [some |-> FALSE, v |-> 0]

\* T's *: an overflow panics in a build that checks it, and wraps otherwise
mul(t, chk, p, q) ==
    IF InRange(t, p * q) THEN [st |-> "ok", v |-> p * q]
    ELSE IF chk THEN [st |-> "panic_overflow", v |-> p]
    ELSE [st |-> "ok", v |-> Wrap(t, p * q)]

\* the quotient of p by q > 0 rounded toward zero
trunc_div(p, q) == IF p >= 0 THEN p \div q ELSE 0 - ((0 - p) \div q)

\* T's / by a positive divisor: the quotient rounded toward zero
div(t, chk, p, q) == [st |-> "ok", v |-> trunc_div(p, q)]

\* self.0 OP T::from(n).unwrap(): the unwrap panics when the cast gives None
scaled(t, chk, s, n, by) ==
    IF ~cast(t, n).some THEN [st |-> "panic_cast", v |-> s]
    ELSE IF by = "*" THEN mul(t, chk, s, cast(t, n).v)
    ELSE div(t, chk, s, cast(t, n).v)

\* to_mm that scales by the factor of centimeters
to_mm_by_100(t, chk, s) == scaled(t, chk, s, 100, "*")

to_mm(t, chk, s) == scaled(t, chk, s, 1000, "*")

to_cm(t, chk, s) == scaled(t, chk, s, 100, "*")

to_m(t, chk, s) == [st |-> "ok", v |-> s]

\* to_km that multiplies where it should divide
to_km_multiplying(t, chk, s) == scaled(t, chk, s, 1000, "*")

to_km(t, chk, s) == scaled(t, chk, s, 1000, "/")

\* the conversions into meters of the other three units, by the factors of
\* the conversion table: MM / 1000, CM / 100, KM * 1000
mm_to_m(t, chk, s) == scaled(t, chk, s, 1000, "/")

cm_to_m(t, chk, s) == scaled(t, chk, s, 100, "/")

km_to_m(t, chk, s) == scaled(t, chk, s, 1000, "*")

(***************************************************************************)
(* The conversions as actions on the unit value at hand.                   *)
(***************************************************************************)
Convert(from, to, r) ==
    /\ unit = from
    /\ st = "ok"
    /\ Len(hist) <= MaxHops
    /\ st' = r.st
    /\ val' = r.v
    /\ unit' = IF r.st = "ok" THEN to ELSE unit
    /\ hist' = Append(hist, to)
    /\ UNCHANGED <<ty, checks, x>>
    /\ UNCHANGED vecVars

ToMM == Convert("M", "MM", to_mm(ty, checks, val))
ToCM == Convert("M", "CM", to_cm(ty, checks, val))
ToM == Convert("M", "M", to_m(ty, checks, val))
ToKM == Convert("M", "KM", to_km(ty, checks, val))
MMToM == Convert("MM", "M", mm_to_m(ty, checks, val))
CMToM == Convert("CM", "M", cm_to_m(ty, checks, val))
KMToM == Convert("KM", "M", km_to_m(ty, checks, val))

VecIdle ==
    /\ a = zero
    /\ b = zero
    /\ lo = 0
    /\ hi = 0
    /\ op = "new"
    /\ out = 0

InitDist ==
    /\ ty \in Types
    /\ checks \in BOOLEAN
    /\ x \in (0 - MaxX)..MaxX
    /\ InRange(ty, x)
    /\ unit \in Units
    /\ val = x
    /\ st = "ok"
    /\ hist = <<unit>>
    /\ VecIdle

NextDist ==
    \/ ToMM
    \/ ToCM
    \/ ToM
    \/ ToKM
    \/ MMToM
    \/ CMToM
    \/ KMToM

SpecDist == InitDist /\ [][NextDist]_vars

(***************************************************************************)
(* Claims about Vec4.                                                      *)
(***************************************************************************)

\* C1: a.dot(b) is the sum of the four component-wise products, and so
\* v.dot(v) is v.length_sq().
DotIsSumOfProducts ==
    op = "dot" =>
        /\ out = a.x * b.x + a.y * b.y + a.z * b.z + a.w * b.w
        /\ (a = b => out = length_sq(a))

\* C4: partial_cmp is Less iff all four components of a are strictly less
\* than b's, Greater iff all four are strictly greater, Equal iff the
\* vectors are equal, and None in every other case.
PartialCmpAllOrNothing ==
    op = "partial_cmp" =>
        /\ out \in {"Less", "Greater", "Equal", "None"}
        /\ (out = "Less" <=> \A i \in Axes : a[i] < b[i])
        /\ (out = "Greater" <=> \A i \in Axes : a[i] > b[i])
        /\ (out = "Equal" <=> a = b)
        /\ (out = "None" <=>
               /\ \E i \in Axes : ~(a[i] < b[i])
               /\ \E i \in Axes : ~(a[i] > b[i])
               /\ \E i \in Axes : a[i] # b[i])

\* a first component that is less and a second that is greater: a
\* lexicographic order would say Less, partial_cmp says None
PartialCmpUnordered ==
    /\ op = "partial_cmp"
    /\ a.x < b.x
    /\ a.y > b.y
    /\ out = "None"

ZeroIsAdditiveIdentity ==
    op = "add" =>
        /\ (b = zero => eq(out, a))
        /\ (a = zero => eq(out, b))
        /\ \A i \in Axes : zero[i] = 0

AddedZero ==
    /\ op = "add"
    /\ b = zero
    /\ a.z # a.w
    /\ out = a

\* C8: is_zero() is true iff every component is 0, that is iff v = zero().
IsZeroIffAllZero ==
    op = "is_zero" =>
        /\ (out <=> \A i \in Axes : a[i] = 0)
        /\ (out <=> eq(a, zero))

\* a single non-zero component, in the last position
IsZeroSingleNonZero ==
    /\ op = "is_zero"
    /\ a = Vec4(0, 0, 0, 1)
    /\ out = FALSE

\* C9: for min <= max, clamp puts every component into [min, max]: one
\* inside the range is unchanged, one below becomes min, one above max.
ClampComponentWise ==
    (op = "clamp" /\ lo <= hi) =>
        \A i \in Axes :
            /\ lo <= out[i] /\ out[i] <= hi
            /\ (lo <= a[i] /\ a[i] <= hi => out[i] = a[i])
            /\ (a[i] < lo => out[i] = lo)
            /\ (a[i] > hi => out[i] = hi)

\* one component below, one inside and one above the range
ClampedAllCases ==
    /\ op = "clamp"
    /\ a.x < lo
    /\ lo <= a.y /\ a.y <= hi
    /\ a.w > hi
    /\ out = Vec4(lo, a.y, scalar_clamp(a.z, lo, hi), hi)

Factor(u, v) == IF "CM" \in {u, v} THEN 100 ELSE 1000

Multiplies(u, v) == (u = "M" /\ v \in {"MM", "CM"}) \/ (u = "KM" /\ v = "M")

Divides(u, v) == (u = "M" /\ v = "KM") \/ (u \in {"MM", "CM"} /\ v = "M")

RoundTrip == Len(hist) = 3 /\ hist[1] = hist[3] /\ st = "ok"

ConversionsOutOfMetersTotal ==
    (Len(hist) = 2 /\ hist[1] = "M") => st \in {"ok", "panic_overflow"}

\* C6: with T wide enough to hold the factor, M(x).to_mm() is MM(x * 1000),
\* M(x).to_cm() is CM(x * 100), M(x).to_km() is KM(x / 1000) and
\* M(x).to_m() is M(x), with T's own * and /: the exact product when it is a
\* value of T, T's overflow otherwise, and the quotient rounded toward zero.
OutOfMetersByExactFactor ==
    (Len(hist) = 2 /\ hist[1] = "M" /\ InRange(ty, Factor("M", hist[2]))) =>
        LET v == hist[2]
            f == Factor("M", v)
        IN  /\ (v = "M" => st = "ok" /\ unit = "M" /\ val = x)
            /\ (Multiplies("M", v) /\ InRange(ty, x * f) =>
                   st = "ok" /\ unit = v /\ val = x * f)
            /\ (Multiplies("M", v) /\ ~InRange(ty, x * f) /\ checks =>
                   st = "panic_overflow")
            /\ (Multiplies("M", v) /\ ~InRange(ty, x * f) /\ ~checks =>
                   /\ st = "ok" /\ unit = v
                   /\ InRange(ty, val)
                   /\ (val - x * f) % (2 ^ Bits(ty)) = 0)
            /\ (v = "KM" =>
                   /\ st = "ok" /\ unit = "KM"
                   /\ \E r \in (1 - f)..(f - 1) :
                         /\ val * f + r = x
                         /\ (x >= 0 => r >= 0)
                         /\ (x <= 0 => r <= 0))

\* 1 m is 1000 mm
OneMeterInMillimeters ==
    /\ hist = <<"M", "MM">>
    /\ ty = "i16"
    /\ x = 1
    /\ st = "ok"
    /\ unit = "MM"
    /\ val = 1000

====
